---- MODULE Spec2Model ----
(***************************************************************************)
(* Model of the master-calibration subsystem of banzai:                    *)
(*   - banzai/celery.py: schedule_calibration_stacking, stack_calibrations *)
(*     (the stack scheduler and its retry chain),                          *)
(*   - banzai/calibrations.py: CalibrationMaker.do_stage and               *)
(*     make_master_calibrations (the master builder), CalibrationUser and  *)
(*     CalibrationComparer (applying and comparing masters),               *)
(*     and CalibrationStacker.make_master_calibration_frame (the combiner),*)
(*   - banzai/celery.py: process_image.                                    *)
(* Times are whole seconds.  The broker is a set of task messages, each    *)
(* with an eta before which no worker may run it.                          *)
(***************************************************************************)
EXTENDS Integers, Sequences, FiniteSets, TLC

\* ------------------------------------------------------------------ bounds
MaxChains == 1          \* stack_calibrations chains dispatched in a behaviour of Spec
MaxRepeats == 2         \* chains dispatched for one window in SpecRepeat
MaxGood == 1            \* good frames ingested per window
MaxBad == 1             \* bad frames ingested per window
MaxExposureCount == 2   \* exposure_count of one instrument config
MaxImages == 6          \* frames handed to one do_stage call
MaxRunImages == 3       \* frames handed to one run of a maker stage
MaxStack == 4           \* frames handed to one combiner call
MaxTries == 2           \* tries a file has had before a process_image task
MaxSame == 20           \* pixels of an image that equal the master's
MaxDeviating == 2       \* pixels of an image of each other kind

\* ------------------------------------------------------- program constants
RETRY_DELAY == 600
MAX_RETRIES == 3
SECONDS_PER_DAY == 86400

\* ------------------------------------------------------------------ inputs
FrameTypes == {"BIAS", "dark"}
DateRanges == {"night"}
BlockEnds == {-90000, -400, -60, 60, 86400}
StackDelayValues == {0, 300, 900}
\* runtime_context.CALIBRATION_STACK_DELAYS of the scheduler's behaviours
StackDelays == {[BIAS |-> 300, DARK |-> 900]}
FrameTypeLists == {<<"BIAS">>, <<"dark">>, <<"BIAS", "dark">>}

\* str.upper() on the frame types and calibration types the model passes
Upper(s) ==
    CASE s = "bias" -> "BIAS"
      [] s = "dark" -> "DARK"
      [] s = "skyflat" -> "SKYFLAT"
      [] OTHER -> s

Cfg(type, counts) ==
    [type |-> type,
     instrument_configs |-> [i \in DOMAIN counts |-> [exposure_count |-> counts[i]]]]

Block(end, configurations) ==
    [end |-> end, request |-> [configurations |-> configurations]]

\* the requests of the calibration blocks the scheduler hands over
Requests ==
    {<<Cfg("BIAS", <<1>>), Cfg("SKY_FLAT", <<1>>)>>,
     <<Cfg("DARK", <<1, MaxExposureCount>>), Cfg("BIAS", <<MaxExposureCount>>)>>}

VARIABLES
    portal,     \* the calibration blocks the observation portal reports
    clock,      \* wall-clock time (datetime.utcnow())
    tasks,      \* stack_calibrations messages by task id, queued or finished
    frames,     \* frame store: ingested frames per window, good and bad
    lastRun,    \* the latest stack_calibrations run and what it decided
    mk,         \* one CalibrationMaker.do_stage call: input and result
    us,         \* one CalibrationUser.do_stage call: input and result
    mr,         \* one run of a CalibrationMaker stage over a list of frames
    st,         \* one CalibrationStacker.make_master_calibration_frame call
    im          \* one process_image task: the file's record and the task's position

vars == <<portal, clock, tasks, frames, lastRun, mk, us, mr, st, im>>

Keys == FrameTypes \X DateRanges

KeyOf(t) == <<t.frame_type, t.dates>>

RECURSIVE SumSeq(_)
SumSeq(s) == IF s = <<>> THEN 0 ELSE Head(s) + SumSeq(Tail(s))

RECURSIVE MaxSeq(_)
MaxSeq(s) ==
    IF Len(s) = 1 THEN Head(s)
    ELSE LET m == MaxSeq(Tail(s)) IN IF Head(s) > m THEN Head(s) ELSE m

\* the frame type compared as passed, without upper()
ConfigurationCountNoUpper(frame_type, configuration) ==
    IF frame_type = configuration.type
    THEN SumSeq([i \in DOMAIN configuration.instrument_configs |->
                    configuration.instrument_configs[i].exposure_count])
    ELSE 0

\* celery.py 104-109: the expected image count of a window check
ConfigurationCount(frame_type, configuration) ==
    IF Upper(frame_type) = configuration.type
    THEN SumSeq([i \in DOMAIN configuration.instrument_configs |->
                    configuration.instrument_configs[i].exposure_count])
    ELSE 0

ObservationCount(frame_type, observation) ==
    LET cs == observation.request.configurations
    IN SumSeq([i \in DOMAIN cs |-> ConfigurationCount(frame_type, cs[i])])

ExpectedImageCount(frame_type, observations) ==
    SumSeq([i \in DOMAIN observations |-> ObservationCount(frame_type, observations[i])])

\* the count with include_bad_frames left at False
CompletedImageCountGoodOnly(key) == frames[key].good

\* celery.py 101-103: the completed image count, include_bad_frames=True
CompletedImageCount(key) == frames[key].good + frames[key].bad

\* celery.py 70: the latest block end
CalibrationEndTime(blocks) == MaxSeq([i \in DOMAIN blocks |-> blocks[i].end])

\* the clamp of a delay that is already negative left out
MessageDelayNoClamp(calibration_end_time, now, stack_delay) ==
    (calibration_end_time - now + stack_delay) % SECONDS_PER_DAY

\* the whole duration (total_seconds) read instead of the seconds field
MessageDelayTotalSeconds(calibration_end_time, now, stack_delay) ==
    LET message_delay == calibration_end_time - now + stack_delay
    IN IF message_delay < 0 THEN 0 ELSE message_delay

\* celery.py 73-77: timedelta normalises to days = floor(d / 86400) and
\* seconds = d mod 86400; only .days and .seconds are read
MessageDelayInSeconds(calibration_end_time, now, stack_delay) ==
    LET message_delay == calibration_end_time - now + stack_delay
        days == message_delay \div SECONDS_PER_DAY
        seconds == message_delay % SECONDS_PER_DAY
    IN IF days < 0 THEN 0 ELSE seconds

NoRun == [id |-> 0, retries |-> 0, completed |-> 0, expected |-> 0,
          outcome |-> "none"]

NoCall == [calibration_type |-> "none", images |-> <<>>, combiner_raises |-> FALSE,
           pc |-> "idle", result |-> <<>>, combined |-> 0, raised |-> FALSE,
           warned |-> FALSE]

\* the block lists the portal may hold: one block, or two with distinct ends
\* a CalibrationUser stage that has not been called
NoUse == [stage |-> "none", override_missing |-> FALSE, master_found |-> FALSE,
          pixels |-> <<>>, is_bad |-> FALSE, pc |-> "idle", returned |-> "nothing",
          modified |-> FALSE, applied |-> 0]

\* a maker stage that has not been run
NoStageRun == [calibration_type |-> "none", images |-> <<>>, combiner_raises |-> FALSE,
               pc |-> "idle", groups |-> 0, result |-> <<>>, raised |-> 0]

\* a stacker that has not been called
NoStack == [images |-> <<>>, pc |-> "idle", raised |-> "none", master |-> <<>>]

\* no process_image task
NoImage == [needs |-> FALSE, raises |-> "none", tries0 |-> 0, processed0 |-> FALSE,
            tries |-> 0, processed |-> FALSE, pc |-> "idle",
            tries_at_stages |-> -1, stages_done |-> FALSE,
            logged |-> FALSE, propagated |-> FALSE]

BlockLists ==
    {<<Block(e, r)>> : e \in BlockEnds, r \in Requests}
    \cup {<<Block(e[1], r), Block(e[2], r)>> : e \in {<<-60, 60>>, <<60, -60>>}, r \in Requests}

\* the block lists of the scheduler's behaviours: a block long past, one a
\* day ahead, and two blocks around the start
PortalLists ==
    {<<Block(-400, <<Cfg("BIAS", <<1>>), Cfg("SKY_FLAT", <<1>>)>>)>>,
     <<Block(86400, <<Cfg("DARK", <<1, MaxExposureCount>>), Cfg("BIAS", <<MaxExposureCount>>)>>)>>}
    \cup {<<Block(-60, r), Block(60, r)>> : r \in Requests}

Init ==
    /\ portal \in PortalLists
    /\ clock = 0
    /\ tasks = <<>>
    /\ frames = [k \in Keys |-> [good |-> 0, bad |-> 0]]
    /\ lastRun = NoRun
    /\ im = NoImage
    /\ st = NoStack
    /\ mr = NoStageRun
    /\ us = NoUse
    /\ mk = NoCall

\* celery.py 83-85: stack_calibrations.apply_async(args=..., countdown=...)
NewTask(id, frame_type, dates, stack_delay, blocks, now) ==
    LET countdown == MessageDelayInSeconds(CalibrationEndTime(blocks), now, stack_delay)
    IN [id |-> id, frame_type |-> frame_type, dates |-> dates,
        stack_delay |-> stack_delay, observations |-> blocks,
        sent |-> now, countdown |-> countdown, eta |-> now + countdown,
        retries |-> 0, state |-> "queued", builds |-> 0, errors |-> 0]

\* celery.py 47-89: the loop over frame types (one instrument at the site);
\* found is the set of frame types filter_calibration_blocks_for_type
\* returns blocks for
RECURSIVE ScheduleLoop(_, _, _, _, _, _)
ScheduleLoop(ts, frame_types, dates, delays, found, now) ==
    IF frame_types = <<>> THEN ts
    ELSE LET frame_type == Head(frame_types)
             blocks_for_calibration == IF frame_type \in found THEN portal ELSE <<>>
             queued == IF Len(blocks_for_calibration) > 0
                       THEN Append(ts, NewTask(Len(ts) + 1, frame_type, dates,
                                               delays[Upper(frame_type)],
                                               blocks_for_calibration, now))
                       ELSE ts
         IN ScheduleLoop(queued, Tail(frame_types), dates, delays, found, now)

\* celery.py 29-89
ScheduleCalibrationStacking(frame_types, dates, delays, found, limit) ==
    LET queued == ScheduleLoop(tasks, frame_types, dates, delays, found, clock)
    IN /\ Len(queued) <= limit
       /\ queued # tasks
       /\ tasks' = queued
       /\ UNCHANGED <<portal, clock, frames, lastRun, mk, us, mr, st, im>>

\* a build that is skipped when the window key has already been built
MakeMasterCalibrationsOnce(t, pipeline_raises) ==
    IF \E j \in DOMAIN tasks :
          /\ <<tasks[j].frame_type, tasks[j].dates>> = <<t.frame_type, t.dates>>
          /\ tasks[j].builds > 0
    THEN [t EXCEPT !.state = "done"]
    ELSE [t EXCEPT !.state = "done", !.builds = @ + 1,
                   !.errors = IF pipeline_raises THEN @ + 1 ELSE @]

\* a build without the try/except: what the stages raise fails the task
MakeMasterCalibrationsNoCatch(t, pipeline_raises) ==
    IF pipeline_raises
    THEN [t EXCEPT !.state = "failed", !.builds = @ + 1]
    ELSE [t EXCEPT !.state = "done", !.builds = @ + 1]

\* calibrations.py 150-165: the image list excludes bad frames; whatever the
\* pipeline stages raise is logged (161-164) and swallowed, and the function
\* returns
MakeMasterCalibrations(t, pipeline_raises) ==
    [t EXCEPT !.state = "done", !.builds = @ + 1,
              !.errors = IF pipeline_raises THEN @ + 1 ELSE @]

\* a retry whose message is never queued again
RetryDropped(t, now) ==
    [t EXCEPT !.state = "dropped"]

\* a retry that also goes on to build
RetryAndBuild(t, now) ==
    [t EXCEPT !.retries = @ + 1, !.sent = now, !.countdown = RETRY_DELAY,
              !.eta = now + RETRY_DELAY, !.builds = @ + 1]

\* celery.py 116: self.retry() requeues the same task id, retries + 1,
\* after default_retry_delay
Retry(t, now) ==
    [t EXCEPT !.retries = @ + 1, !.sent = now, !.countdown = RETRY_DELAY,
              !.eta = now + RETRY_DELAY]

\* off-by-one variants of the retry condition
ShouldRetryLeq(completed_image_count, expected_image_count, retries) ==
    completed_image_count <= expected_image_count /\ retries < MAX_RETRIES

ShouldRetryTwo(completed_image_count, expected_image_count, retries) ==
    completed_image_count < expected_image_count /\ retries < MAX_RETRIES - 1

ShouldRetryFour(completed_image_count, expected_image_count, retries) ==
    completed_image_count < expected_image_count /\ retries <= MAX_RETRIES

\* celery.py 111
ShouldRetry(completed_image_count, expected_image_count, retries) ==
    completed_image_count < expected_image_count /\ retries < MAX_RETRIES

\* celery.py 92-121: a worker runs one queued check whose eta has passed;
\* pipeline_raises tells whether the pipeline stages of the build raise
StackCalibrations(id, pipeline_raises) ==
    /\ id \in DOMAIN tasks
    /\ LET t == tasks[id]
           completed_image_count == CompletedImageCount(KeyOf(t))
           expected_image_count == ExpectedImageCount(t.frame_type, t.observations)
           retry == ShouldRetry(completed_image_count, expected_image_count, t.retries)
       IN /\ t.state = "queued"
          /\ clock >= t.eta
          /\ tasks' = [tasks EXCEPT ![id] = IF retry THEN Retry(t, clock)
                                            ELSE MakeMasterCalibrations(t, pipeline_raises)]
          /\ lastRun' = [id |-> id, retries |-> t.retries,
                         completed |-> completed_image_count,
                         expected |-> expected_image_count,
                         outcome |-> IF retry THEN "retry" ELSE "build"]
          /\ UNCHANGED <<portal, clock, frames, mk, us, mr, st, im>>

\* time passes until the eta of a queued message
Tick ==
    /\ \E id \in DOMAIN tasks :
          /\ tasks[id].state = "queued"
          /\ tasks[id].eta > clock
          /\ clock' = tasks[id].eta
    /\ UNCHANGED <<portal, tasks, frames, lastRun, mk, us, mr, st, im>>

\* the frame store ingests one more frame of a window, good or flagged bad
Ingest(key, is_bad) ==
    /\ IF is_bad
       THEN /\ frames[key].bad < MaxBad
            /\ frames' = [frames EXCEPT ![key].bad = @ + 1]
       ELSE /\ frames[key].good < MaxGood
            /\ frames' = [frames EXCEPT ![key].good = @ + 1]
    /\ UNCHANGED <<portal, clock, tasks, lastRun, mk, us, mr, st, im>>

Next ==
    \/ \E frame_types \in FrameTypeLists, dates \in DateRanges,
          delays \in StackDelays, found \in SUBSET FrameTypes :
            ScheduleCalibrationStacking(frame_types, dates, delays, found, MaxChains)
    \/ \E id \in DOMAIN tasks : StackCalibrations(id, FALSE)
    \/ Tick
    \/ \E key \in Keys, is_bad \in BOOLEAN : Ingest(key, is_bad)

Spec == Init /\ [][Next]_vars

\* ---------------------------------------------------------------------
\* Repeated scheduling of the same windows: the blocks ended long ago, the
\* frame store holds its frames from the start and
\* schedule_calibration_stacking is invoked again and again, at any time.
InitRepeat ==
    /\ portal \in {<<Block(-90000, r)>> : r \in Requests}
    /\ clock = 0
    /\ tasks = <<>>
    /\ \E n \in 0..MaxGood : frames = [k \in Keys |-> [good |-> n, bad |-> 0]]
    /\ lastRun = NoRun
    /\ im = NoImage
    /\ st = NoStack
    /\ mr = NoStageRun
    /\ us = NoUse
    /\ mk = NoCall

NextRepeat ==
    \/ \E frame_types \in FrameTypeLists, dates \in DateRanges,
          delays \in StackDelays, found \in SUBSET FrameTypes :
            ScheduleCalibrationStacking(frame_types, dates, delays, found, MaxRepeats)
    \/ \E id \in DOMAIN tasks : StackCalibrations(id, FALSE)
    \/ Tick

SpecRepeat == InitRepeat /\ [][NextRepeat]_vars

\* ---------------------------------------------------------------------
\* Checks against a frame store that holds its frames from the start, good
\* and flagged bad, and builds that fail: the pipeline stages of a build may
\* raise.  In the other behaviours of the scheduler the stages do not raise.
InitFail ==
    /\ portal \in PortalLists
    /\ clock = 0
    /\ tasks = <<>>
    /\ frames \in [Keys -> [good : 0..MaxGood, bad : 0..MaxBad]]
    /\ lastRun = NoRun
    /\ im = NoImage
    /\ mk = NoCall
    /\ us = NoUse
    /\ mr = NoStageRun
    /\ st = NoStack

NextFail ==
    \/ \E frame_types \in FrameTypeLists, dates \in DateRanges,
          delays \in StackDelays, found \in SUBSET FrameTypes :
            ScheduleCalibrationStacking(frame_types, dates, delays, found, MaxChains)
    \/ \E id \in DOMAIN tasks, pipeline_raises \in BOOLEAN :
          StackCalibrations(id, pipeline_raises)
    \/ Tick

SpecFail == InitFail /\ [][NextFail]_vars

\* ---------------------------------------------------------------------
\* The retry chains under fair scheduling: the broker delivers every queued
\* message whose eta has passed, and time passes.  The blocks end shortly
\* after the start, and frames keep arriving in any order.
InitFair ==
    /\ portal \in {<<Block(60, r)>> : r \in Requests}
    /\ clock = 0
    /\ tasks = <<>>
    /\ frames = [k \in Keys |-> [good |-> 0, bad |-> 0]]
    /\ lastRun = NoRun
    /\ im = NoImage
    /\ st = NoStack
    /\ mr = NoStageRun
    /\ us = NoUse
    /\ mk = NoCall

NextFair ==
    \/ \E frame_types \in FrameTypeLists, dates \in DateRanges,
          delays \in StackDelays, found \in SUBSET FrameTypes :
            ScheduleCalibrationStacking(frame_types, dates, delays, found, MaxChains)
    \/ \E id \in DOMAIN tasks : StackCalibrations(id, FALSE)
    \/ Tick
    \/ \E key \in Keys : Ingest(key, FALSE)

Fairness ==
    /\ WF_vars(Tick)
    /\ \A id \in 1..MaxChains : WF_vars(StackCalibrations(id, FALSE))

SpecFair == InitFair /\ [][NextFair]_vars /\ Fairness

\* ---------------------------------------------------------------------
\* The countdown of a dispatch, over block ends before, around and more
\* than a day after the scheduling time, and over the stack delays.
ClockStarts == {0, 500}

InitDelay ==
    /\ portal \in BlockLists
    /\ clock \in ClockStarts
    /\ tasks = <<>>
    /\ frames = [k \in Keys |-> [good |-> 0, bad |-> 0]]
    /\ lastRun = NoRun
    /\ im = NoImage
    /\ st = NoStack
    /\ mr = NoStageRun
    /\ us = NoUse
    /\ mk = NoCall

NextDelay ==
    \E frame_types \in FrameTypeLists, dates \in DateRanges,
       delays \in [{"BIAS", "DARK"} -> StackDelayValues], found \in SUBSET FrameTypes :
         ScheduleCalibrationStacking(frame_types, dates, delays, found, MaxChains)

SpecDelay == InitDelay /\ [][NextDelay]_vars

\* ---------------------------------------------------------------------
\* One CalibrationMaker.do_stage call.
CALIBRATION_MIN_FRAMES == [BIAS |-> 5, DARK |-> 5, SKYFLAT |-> 5]

CalibrationTypes == {"BIAS", "dark", "SKYFLAT", "ARC"}

\* the frames of a call, told apart by binning and filter
FrameKinds == {[ccdsum |-> "1 1", filter |-> "V"], [ccdsum |-> "2 2", filter |-> "V"]}

ImageLists == UNION {[1..n -> FrameKinds] : n \in 0..MaxImages}

\* a type without a configured minimum is combined like any other
DoStageResultNoMinimumCombines(call) ==
    LET checked == [call EXCEPT !.pc = "done"]
    IN IF call.combiner_raises
       THEN [checked EXCEPT !.combined = @ + 1, !.raised = TRUE]
       ELSE [checked EXCEPT !.combined = @ + 1,
                            !.result = <<[is_master |-> TRUE, images |-> call.images]>>]

\* calibrations.py 30-43.  A type without a configured minimum returns [].
\* Too few images only logs a warning (38-41); line 43 runs either way.
\* make_master_calibration_frame is the subclass's combiner: it returns a
\* master built from the images it is given, or raises, and do_stage lets
\* what it raises through.
DoStageResult(call) ==
    IF Upper(call.calibration_type) \notin DOMAIN CALIBRATION_MIN_FRAMES
    THEN [call EXCEPT !.pc = "done", !.result = <<>>]
    ELSE LET min_images == CALIBRATION_MIN_FRAMES[Upper(call.calibration_type)]
             checked == [call EXCEPT !.pc = "done",
                                     !.warned = Len(call.images) < min_images]
         IN IF call.combiner_raises
            THEN [checked EXCEPT !.combined = @ + 1, !.raised = TRUE]
            ELSE [checked EXCEPT !.combined = @ + 1,
                                 !.result = <<[is_master |-> TRUE, images |-> call.images]>>]

DoStage ==
    /\ mk.pc = "called"
    /\ mk' = DoStageResult(mk)
    /\ UNCHANGED <<portal, clock, tasks, frames, lastRun, us, mr, st, im>>

InitMaker ==
    /\ portal = <<>>
    /\ clock = 0
    /\ tasks = <<>>
    /\ frames = [k \in Keys |-> [good |-> 0, bad |-> 0]]
    /\ lastRun = NoRun
    /\ im = NoImage
    /\ st = NoStack
    /\ mr = NoStageRun
    /\ us = NoUse
    /\ \E calibration_type \in CalibrationTypes, images \in ImageLists,
          combiner_raises \in BOOLEAN :
            mk = [NoCall EXCEPT !.calibration_type = calibration_type,
                                !.images = images,
                                !.combiner_raises = combiner_raises,
                                !.pc = "called"]

NextMaker == DoStage

SpecMaker == InitMaker /\ [][NextMaker]_vars

\* ---------------------------------------------------------------------
\* CalibrationUser.do_stage and CalibrationComparer (calibrations.py 66-147).
\* An image and the master it is compared with are arrays of the same size;
\* the comparison is pixel by pixel and then a count, so a pair of arrays is
\* given by how many pixels of each kind it holds.

SIGNAL_TO_NOISE_THRESHOLD == 6
\* 0.05 as numerator and denominator
ACCEPTABLE_PIXEL_FRACTION == <<1, 20>>

\* pixel kinds: the image's value and noise, the master's value and noise.
\* 1: equal, 2: equal with zero noise, 3: deviation exactly 6.0,
\* 4: deviation 6.5, 5: different with zero noise
PixelKinds ==
    <<[data |-> 10, noise |-> 1, master_data |-> 10, master_noise |-> 1],
      [data |-> 10, noise |-> 0, master_data |-> 10, master_noise |-> 0],
      [data |-> 22, noise |-> 1, master_data |-> 10, master_noise |-> 1],
      [data |-> 23, noise |-> 1, master_data |-> 10, master_noise |-> 1],
      [data |-> 11, noise |-> 0, master_data |-> 10, master_noise |-> 0]>>

\* how many pixels of each kind an image holds; never an empty image
PixelCounts ==
    {c \in [DOMAIN PixelKinds -> 0..MaxSame] :
        /\ \A k \in DOMAIN PixelKinds : k # 1 => c[k] <= MaxDeviating
        /\ \E k \in DOMAIN PixelKinds : c[k] > 0}

Abs(x) == IF x < 0 THEN -x ELSE x

\* image.noise.add(master.noise)
NoiseAdd(noise, master_noise) == noise + master_noise

\* a pixel is counted only above the threshold
PixelFlaggedStrict(p) ==
    LET d == Abs(p.data - p.master_data)
        n == NoiseAdd(p.noise, p.master_noise)
    IN IF n = 0 THEN d # 0 ELSE d > SIGNAL_TO_NOISE_THRESHOLD * n

\* a not-a-number quotient is counted
PixelFlaggedNanCounts(p) ==
    LET d == Abs(p.data - p.master_data)
        n == NoiseAdd(p.noise, p.master_noise)
    IN IF n = 0 THEN TRUE ELSE d >= SIGNAL_TO_NOISE_THRESHOLD * n

\* calibrations.py 125-128, one element of the array: |data - master| / noise
\* >= 6.0.  Division by zero noise gives inf for a non-zero difference
\* (inf >= 6.0 is True) and nan for a zero difference (nan >= 6.0 is False).
PixelFlagged(p) ==
    LET d == Abs(p.data - p.master_data)
        n == NoiseAdd(p.noise, p.master_noise)
    IN IF n = 0 THEN d # 0 ELSE d >= SIGNAL_TO_NOISE_THRESHOLD * n

\* bad_pixel_fraction.sum() and bad_pixel_fraction.size
FlaggedCount(pixels) ==
    SumSeq([k \in DOMAIN PixelKinds |-> IF PixelFlagged(PixelKinds[k]) THEN pixels[k] ELSE 0])

PixelSize(pixels) == SumSeq([k \in DOMAIN PixelKinds |-> pixels[k]])

\* calibrations.py 123-139: sum / size > 0.05
IsFrameBad(pixels) ==
    FlaggedCount(pixels) * ACCEPTABLE_PIXEL_FRACTION[2]
        > ACCEPTABLE_PIXEL_FRACTION[1] * PixelSize(pixels)

\* the missing master drops the frame whatever the context says
OnMissingMasterCalibrationDrop(call) ==
    [call EXCEPT !.pc = "done", !.returned = "None"]

\* calibrations.py 81-86
OnMissingMasterCalibration(call) ==
    [call EXCEPT !.pc = "done",
                 !.returned = IF call.override_missing THEN "image" ELSE "None"]

\* the comparer without its own handler: the inherited policy
ComparerOnMissingInherited(call) ==
    [call EXCEPT !.pc = "done",
                 !.returned = IF call.override_missing THEN "image" ELSE "None"]

\* calibrations.py 117-121
ComparerOnMissing(call) ==
    [call EXCEPT !.pc = "done", !.is_bad = TRUE, !.returned = "image"]

\* calibrations.py 141-147
ComparerApplyMasterCalibration(call) ==
    [call EXCEPT !.pc = "done", !.applied = @ + 1,
                 !.is_bad = IF IsFrameBad(call.pixels) THEN TRUE ELSE @,
                 !.returned = "image"]

\* calibrations.py 102-104: abstract; a subclass applies the master to the
\* image and returns it
ApplyMasterCalibration(call) ==
    [call EXCEPT !.pc = "done", !.applied = @ + 1, !.modified = TRUE,
                 !.returned = "image"]

\* calibrations.py 88-100
UserDoStageResult(call) ==
    IF ~call.master_found
    THEN IF call.stage = "comparer" THEN ComparerOnMissing(call)
                                    ELSE OnMissingMasterCalibration(call)
    ELSE IF call.stage = "comparer" THEN ComparerApplyMasterCalibration(call)
                                    ELSE ApplyMasterCalibration(call)

UserDoStage ==
    /\ us.pc = "called"
    /\ us' = UserDoStageResult(us)
    /\ UNCHANGED <<portal, clock, tasks, frames, lastRun, mk, mr, st, im>>

UserStages == {"user", "comparer"}

\* an image that is not flagged bad enters the stage
InitUser ==
    /\ portal = <<>>
    /\ clock = 0
    /\ tasks = <<>>
    /\ frames = [k \in Keys |-> [good |-> 0, bad |-> 0]]
    /\ lastRun = NoRun
    /\ im = NoImage
    /\ st = NoStack
    /\ mr = NoStageRun
    /\ mk = NoCall
    /\ \E stage \in UserStages, override_missing \in BOOLEAN,
          master_found \in BOOLEAN, pixels \in PixelCounts :
            us = [NoUse EXCEPT !.stage = stage,
                               !.override_missing = override_missing,
                               !.master_found = master_found,
                               !.pixels = pixels,
                               !.pc = "called"]

NextUser == UserDoStage

SpecUser == InitUser /\ [][NextUser]_vars

\* ---------------------------------------------------------------------
\* A CalibrationMaker stage run over the frames of a build: the frames are
\* grouped by group_by_attributes() and do_stage is called once per group.

CALIBRATION_SET_CRITERIA ==
    [BIAS |-> <<"ccdsum">>, DARK |-> <<"ccdsum">>, SKYFLAT |-> <<"ccdsum", "filter">>]

\* frames that differ in binning, in filter, and in exposure time, which is
\* in no grouping schema
RunFrameKinds == [ccdsum : {"1 1", "2 2"}, filter : {"V", "R"}, exptime : {1, 2}]

RunImageLists == UNION {[1..n -> RunFrameKinds] : n \in 0..MaxRunImages}

\* every type grouped by binning alone
GroupByAttributesBinningOnly(calibration_type) == <<"ccdsum">>

\* calibrations.py 18-19: CALIBRATION_SET_CRITERIA.get(type.upper(), [])
GroupByAttributes(calibration_type) ==
    IF Upper(calibration_type) \in DOMAIN CALIBRATION_SET_CRITERIA
    THEN CALIBRATION_SET_CRITERIA[Upper(calibration_type)]
    ELSE <<>>

\* the values of a frame's grouping attributes
GroupingOf(image, attributes) == [i \in DOMAIN attributes |-> image[attributes[i]]]

\* the distinct groupings among the first n frames, in order of appearance
RECURSIVE GroupKeys(_, _, _)
GroupKeys(images, attributes, n) ==
    IF n = 0 THEN <<>>
    ELSE LET before == GroupKeys(images, attributes, n - 1)
             k == GroupingOf(images[n], attributes)
         IN IF \E i \in DOMAIN before : before[i] = k THEN before ELSE Append(before, k)

\* the frames of one group
GroupImages(images, attributes, k) ==
    LET InGroup(image) == GroupingOf(image, attributes) = k
    IN SelectSeq(images, InGroup)

RECURSIVE Flatten(_, _)
Flatten(lists, n) ==
    IF n = 0 THEN <<>> ELSE Flatten(lists, n - 1) \o lists[n]

\* one do_stage call per group; the masters the calls return are collected,
\* and a call that raises adds none
RunResult(run) ==
    LET attributes == GroupByAttributes(run.calibration_type)
        keys == GroupKeys(run.images, attributes, Len(run.images))
        Call(k) == DoStageResult([NoCall EXCEPT
                        !.calibration_type = run.calibration_type,
                        !.images = GroupImages(run.images, attributes, k),
                        !.combiner_raises = run.combiner_raises,
                        !.pc = "called"])
        calls == [i \in DOMAIN keys |-> Call(keys[i])]
    IN [run EXCEPT !.pc = "done",
                   !.groups = Len(keys),
                   !.result = Flatten([i \in DOMAIN calls |-> calls[i].result], Len(calls)),
                   !.raised = Cardinality({i \in DOMAIN calls : calls[i].raised})]

Run ==
    /\ mr.pc = "called"
    /\ mr' = RunResult(mr)
    /\ UNCHANGED <<portal, clock, tasks, frames, lastRun, mk, us, st, im>>

InitRun ==
    /\ portal = <<>>
    /\ clock = 0
    /\ tasks = <<>>
    /\ frames = [k \in Keys |-> [good |-> 0, bad |-> 0]]
    /\ lastRun = NoRun
    /\ im = NoImage
    /\ st = NoStack
    /\ mk = NoCall
    /\ us = NoUse
    /\ \E calibration_type \in CalibrationTypes, images \in RunImageLists,
          combiner_raises \in BOOLEAN :
            mr = [NoStageRun EXCEPT !.calibration_type = calibration_type,
                                    !.images = images,
                                    !.combiner_raises = combiner_raises,
                                    !.pc = "called"]

NextRun == Run

SpecRun == InitRun /\ [][NextRun]_vars

\* ---------------------------------------------------------------------
\* CalibrationStacker.make_master_calibration_frame (calibrations.py 46-65).

\* frames of one pixel and of two, with bad-pixel masks
StackFrameKinds ==
    {[ny |-> 1, nx |-> 1, data |-> <<5>>, bpm |-> <<1>>],
     [ny |-> 1, nx |-> 1, data |-> <<7>>, bpm |-> <<0>>],
     [ny |-> 1, nx |-> 2, data |-> <<5, 5>>, bpm |-> <<1, 1>>]}

StackLists == UNION {[1..n -> StackFrameKinds] : n \in 0..MaxStack}

\* calibrations.py 50-65.  The first argument of np.memmap at line 51 is
\* NamedTemporaryFile(), a name the module never binds: evaluating it raises
\* NameError before images[0] is read, for every list of images, and nothing
\* after line 51 runs.
MakeMasterCalibrationFrame(call) ==
    [call EXCEPT !.pc = "done", !.raised = "NameError"]

Stack ==
    /\ st.pc = "called"
    /\ st' = MakeMasterCalibrationFrame(st)
    /\ UNCHANGED <<portal, clock, tasks, frames, lastRun, mk, us, mr, im>>

InitStack ==
    /\ portal = <<>>
    /\ clock = 0
    /\ tasks = <<>>
    /\ frames = [k \in Keys |-> [good |-> 0, bad |-> 0]]
    /\ lastRun = NoRun
    /\ im = NoImage
    /\ mk = NoCall
    /\ us = NoUse
    /\ mr = NoStageRun
    /\ \E images \in StackLists : st = [NoStack EXCEPT !.images = images, !.pc = "called"]

NextStack == Stack

SpecStack == InitStack /\ [][NextStack]_vars

\* ---------------------------------------------------------------------
\* process_image (celery.py 124-139), statement by statement.  The file's
\* record holds its try counter and its processed flag.  Any of the four
\* calls inside the try block may raise; raises names the one that does.

ProcessSteps == {"need", "increment", "stages", "mark"}

\* an exception that leaves the task
Propagate(p) ==
    [p EXCEPT !.pc = "failed", !.propagated = TRUE]

\* celery.py 137-139: except Exception logs the error; the task returns
Caught(p) ==
    [p EXCEPT !.pc = "done", !.logged = TRUE]

\* celery.py 129: realtime_utils.need_to_process_image(path, runtime_context)
NeedToProcessImage(p) ==
    IF p.raises = "need" THEN Caught(p)
    ELSE IF p.needs THEN [p EXCEPT !.pc = "increment"]
         ELSE [p EXCEPT !.pc = "done"]

\* celery.py 132-133: increment the number of tries for this file
IncrementTryNumber(p) ==
    IF p.raises = "increment" THEN Caught(p)
    ELSE [p EXCEPT !.tries = @ + 1, !.pc = "stages"]

\* celery.py 134: stage_utils.run_pipeline_stages(path, runtime_context)
RunPipelineStages(p) ==
    IF p.raises = "stages" THEN Caught([p EXCEPT !.tries_at_stages = p.tries])
    ELSE [p EXCEPT !.tries_at_stages = p.tries, !.stages_done = TRUE, !.pc = "mark"]

\* celery.py 135: realtime_utils.set_file_as_processed(path, ...)
SetFileAsProcessed(p) ==
    IF p.raises = "mark" THEN Caught(p)
    ELSE [p EXCEPT !.processed = TRUE, !.pc = "done"]

ProcessNeed ==
    /\ im.pc = "need"
    /\ im' = NeedToProcessImage(im)
    /\ UNCHANGED <<portal, clock, tasks, frames, lastRun, mk, us, mr, st>>

ProcessIncrement ==
    /\ im.pc = "increment"
    /\ im' = IncrementTryNumber(im)
    /\ UNCHANGED <<portal, clock, tasks, frames, lastRun, mk, us, mr, st>>

ProcessStages ==
    /\ im.pc = "stages"
    /\ im' = RunPipelineStages(im)
    /\ UNCHANGED <<portal, clock, tasks, frames, lastRun, mk, us, mr, st>>

ProcessMark ==
    /\ im.pc = "mark"
    /\ im' = SetFileAsProcessed(im)
    /\ UNCHANGED <<portal, clock, tasks, frames, lastRun, mk, us, mr, st>>

InitProcess ==
    /\ portal = <<>>
    /\ clock = 0
    /\ tasks = <<>>
    /\ frames = [k \in Keys |-> [good |-> 0, bad |-> 0]]
    /\ lastRun = NoRun
    /\ mk = NoCall
    /\ us = NoUse
    /\ mr = NoStageRun
    /\ st = NoStack
    /\ \E needs \in BOOLEAN, raises \in ProcessSteps \cup {"none"},
          tries0 \in 0..MaxTries, processed0 \in BOOLEAN :
            im = [NoImage EXCEPT !.needs = needs, !.raises = raises,
                                 !.tries0 = tries0, !.processed0 = processed0,
                                 !.tries = tries0, !.processed = processed0,
                                 !.pc = "need"]

NextProcess == ProcessNeed \/ ProcessIncrement \/ ProcessStages \/ ProcessMark

SpecProcess == InitProcess /\ [][NextProcess]_vars

\* =====================================================================
\* Properties

Ran == lastRun.outcome # "none"

LastTask == tasks[lastRun.id]

LatestBlockEnd(blocks) ==
    CHOOSE e \in {blocks[i].end : i \in DOMAIN blocks} :
        \A i \in DOMAIN blocks : blocks[i].end <= e

\* end - now + stack_delay at the dispatch of t
DispatchDelay(t) == LatestBlockEnd(t.observations) - t.sent + t.stack_delay

FirstDispatches == {i \in DOMAIN tasks : tasks[i].retries = 0 /\ tasks[i].state = "queued"}

BuildsFor(key) ==
    SumSeq([i \in DOMAIN tasks |-> IF KeyOf(tasks[i]) = key THEN tasks[i].builds ELSE 0])

DoneFor(key) == {i \in DOMAIN tasks : KeyOf(tasks[i]) = key /\ tasks[i].state = "done"}

QueuedFor(key) == {i \in DOMAIN tasks : KeyOf(tasks[i]) = key /\ tasks[i].state = "queued"}

\* C1: a check that finds fewer completed images than expected with fewer
\* than 3 retries used re-arms itself (same task, one more retry, queued)
\* and has not invoked the master build.
C1_RearmsBelowExpected ==
    (Ran /\ lastRun.completed < lastRun.expected /\ lastRun.retries < 3)
        => /\ lastRun.outcome = "retry"
           /\ LastTask.state = "queued"
           /\ LastTask.retries = lastRun.retries + 1
           /\ LastTask.builds = 0

C1_Witness ==
    /\ Ran /\ lastRun.completed < lastRun.expected /\ lastRun.retries = 1
    /\ lastRun.outcome = "retry" /\ LastTask.retries = 2

\* C2: a check that finds at least the expected number of completed images
\* invokes the master build exactly once and does not re-arm, whatever the
\* retry count.
C2_BuildsWhenComplete ==
    (Ran /\ lastRun.completed >= lastRun.expected)
        => /\ lastRun.outcome = "build"
           /\ LastTask.state = "done"
           /\ LastTask.builds = 1
           /\ LastTask.retries = lastRun.retries

C2_Witness ==
    /\ Ran /\ lastRun.completed >= lastRun.expected /\ lastRun.expected > 0
    /\ lastRun.retries > 0 /\ lastRun.outcome = "build" /\ LastTask.builds = 1

\* C3: a check that finds fewer completed images than expected with all 3
\* retries used does not re-arm: it invokes the master build and the window
\* is done.
C3_BuildsWhenExhausted ==
    (Ran /\ lastRun.completed < lastRun.expected /\ lastRun.retries = 3)
        => /\ lastRun.outcome = "build"
           /\ LastTask.state = "done"
           /\ LastTask.builds = 1
           /\ LastTask.retries = 3

C3_Witness ==
    /\ Ran /\ lastRun.completed < lastRun.expected /\ lastRun.retries = 3
    /\ lastRun.outcome = "build" /\ LastTask.state = "done"

\* C4: under fair execution every dispatched chain re-arms at most 3 times
\* and eventually ends with the master build invoked.
C4_BoundedRetriesThenBuild ==
    /\ [](\A id \in DOMAIN tasks : tasks[id].retries <= 3)
    /\ \A id \in 1..MaxChains :
          (id \in DOMAIN tasks)
              ~> (id \in DOMAIN tasks /\ tasks[id].state = "done" /\ tasks[id].builds = 1)

C4_Witness ==
    \E id \in DOMAIN tasks :
        tasks[id].state = "done" /\ tasks[id].retries = 3 /\ tasks[id].builds = 1

\* C5 (as claimed): a check for a window key whose master has been built does
\* not invoke the build again, so no key is built more than once.
C5_NoSecondBuild ==
    \A key \in Keys : BuildsFor(key) <= 1

\* C5 (amended): every check that ends its chain invokes the build once,
\* also for a key that has been built before: the builds of a key are as
\* many as its finished chains.
C5_EveryChainBuilds ==
    \A key \in Keys : BuildsFor(key) = Cardinality(DoneFor(key))

C5_Witness ==
    \E key \in Keys : BuildsFor(key) >= 2 /\ Cardinality(DoneFor(key)) >= 2

\* C6 (as claimed): at most one check of a window key is queued at a time,
\* however often the scheduler is invoked.
C6_OneCheckPerKey ==
    \A key \in Keys : Cardinality(QueuedFor(key)) <= 1

\* C6 (amended): within one chain a check is queued only while the chain has
\* not built, and the chain builds exactly once, when it ends; chains of the
\* same key from separate scheduler invocations coexist.
C6_OneBuildPerChain ==
    \A id \in DOMAIN tasks :
        /\ tasks[id].state \in {"queued", "done"}
        /\ tasks[id].state = "queued" => tasks[id].builds = 0
        /\ tasks[id].state = "done" => tasks[id].builds = 1

C6_Witness ==
    \E i, j \in DOMAIN tasks :
        /\ i # j /\ KeyOf(tasks[i]) = KeyOf(tasks[j])
        /\ tasks[i].state = "queued" /\ tasks[i].retries > 0
        /\ tasks[j].state = "queued"

C9_FirstCheckAfterDelay ==
    [][\A id \in DOMAIN tasks :
          (tasks[id].state = "queued" /\ tasks[id].retries = 0 /\ tasks'[id] # tasks[id])
              => clock >= LatestBlockEnd(tasks[id].observations) + tasks[id].stack_delay]_vars

\* C10: do_stage called with fewer frames than the minimum of its
\* calibration type returns an empty result, does not call the combiner and
\* does not raise.
C10_TooFewFramesNoMaster ==
    (/\ mk.pc = "done"
     /\ Upper(mk.calibration_type) \in DOMAIN CALIBRATION_MIN_FRAMES
     /\ Len(mk.images) < 5)
        => mk.result = <<>> /\ mk.combined = 0 /\ ~mk.raised

\* a check of task id has just run
CheckRan(id) == id \in DOMAIN tasks /\ tasks'[id] # tasks[id]

\* C11 (as claimed): frames flagged bad never help a check reach
\* observed >= expected: a check that builds with retries left has found at
\* least the expected number of good frames (frames are never removed).
C11_BadFramesNotCounted ==
    (Ran /\ lastRun.outcome = "build" /\ lastRun.retries < 3)
        => frames[KeyOf(LastTask)].good >= lastRun.expected

\* C11 (amended): the observed count of a check is the number of all frames
\* ingested in the window, those flagged bad included.
C11_CountsAllFrames ==
    [][\A id \in DOMAIN tasks :
          CheckRan(id) =>
              lastRun'.completed = frames[KeyOf(tasks[id])].good + frames[KeyOf(tasks[id])].bad]_vars

C11_Witness ==
    /\ Ran /\ lastRun.outcome = "build" /\ lastRun.retries < 3
    /\ lastRun.expected > 0
    /\ lastRun.completed >= lastRun.expected
    /\ frames[KeyOf(LastTask)].good < lastRun.expected
    /\ frames[KeyOf(LastTask)].bad > 0

\* the (observation, configuration, instrument config) positions whose
\* configuration type is the upper-cased frame type
MatchingConfigs(frame_type, observations) ==
    {p \in UNION {UNION {{<<o, c, i>> :
                i \in DOMAIN observations[o].request.configurations[c].instrument_configs} :
                c \in DOMAIN observations[o].request.configurations} :
                o \in DOMAIN observations} :
        observations[p[1]].request.configurations[p[2]].type = Upper(frame_type)}

RECURSIVE SumExposures(_, _)
SumExposures(observations, ps) ==
    IF ps = {} THEN 0
    ELSE LET p == CHOOSE q \in ps : TRUE
         IN observations[p[1]].request.configurations[p[2]].instrument_configs[p[3]].exposure_count
            + SumExposures(observations, ps \ {p})

\* C12: the expected count of a check is the sum of exposure_count over
\* every instrument config of every configuration of every observation whose
\* type is the upper-cased frame type; other types contribute nothing.
C12_ExpectedIsSumOfMatching ==
    Ran => lastRun.expected =
             SumExposures(LastTask.observations,
                          MatchingConfigs(LastTask.frame_type, LastTask.observations))

C12_Witness ==
    /\ Ran /\ LastTask.frame_type = "dark" /\ Len(LastTask.observations) = 2
    /\ lastRun.expected = 2 * (1 + MaxExposureCount)

\* a comparer call that found no reference master has returned
ComparedWithoutMaster == us.pc = "done" /\ us.stage = "comparer" /\ ~us.master_found

\* a comparer call that found its reference master has returned
Compared == us.pc = "done" /\ us.stage = "comparer" /\ us.master_found

\* C13 (as claimed): without a reference master the comparer flags the image
\* bad under the default policy and leaves it unflagged under override_missing.
C13_OverrideLeavesUnflagged ==
    ComparedWithoutMaster => (us.is_bad <=> ~us.override_missing)

\* C13 (amended): without a reference master the comparer flags the image bad
\* and returns it, whether or not override_missing is set, and compares nothing.
C13_MissingMasterAlwaysBad ==
    ComparedWithoutMaster => us.is_bad /\ us.returned = "image" /\ us.applied = 0

C13_Witness == ComparedWithoutMaster /\ us.override_missing /\ us.is_bad

\* C14: when CalibrationUser.do_stage finds no master, override_missing
\* returns the frame as it came, otherwise nothing is returned; in neither
\* case is apply_master_calibration called.
C14_MissingMasterPolicy ==
    (us.pc = "done" /\ us.stage = "user" /\ ~us.master_found)
        => /\ us.applied = 0
           /\ us.override_missing => (us.returned = "image" /\ ~us.modified /\ ~us.is_bad)
           /\ ~us.override_missing => us.returned = "None"

C14_Witness ==
    /\ us.pc = "done" /\ us.stage = "user" /\ ~us.master_found
    /\ us.override_missing /\ us.returned = "image"

\* no pixel of the pair of arrays has zero noise
NoiseEverywhere(pixels) == pixels[2] = 0 /\ pixels[5] = 0

\* C15 (as claimed): the candidate is bad exactly when more than 0.05 of the
\* pixels deviate by strictly more than 6.0; of the pixel kinds with noise
\* only the fourth (6.5) does, the third (6.0 exactly) is not counted.
C15_CountsStrictlyAbove ==
    (Compared /\ NoiseEverywhere(us.pixels))
        => (us.is_bad <=> 20 * us.pixels[4] > PixelSize(us.pixels))

\* C15 (amended): the candidate is bad exactly when more than 0.05 of the
\* pixels deviate by 6.0 or more: a pixel at the threshold is counted, as
\* is a pixel with a difference over zero noise; equal pixels are not.
C15_CountsAtOrAbove ==
    Compared
        => (us.is_bad <=>
              20 * (us.pixels[3] + us.pixels[4] + us.pixels[5]) > PixelSize(us.pixels))

C15_Witness ==
    /\ Compared /\ NoiseEverywhere(us.pixels)
    /\ us.pixels[3] = 1 /\ us.pixels[4] = 0 /\ us.pixels[1] = 18
    /\ us.is_bad

\* C16: equal arrays (zero-noise pixels included) are never bad, and arrays
\* that differ by 6.5 noise units on more than 5% of the pixels are bad.
C16_IdenticalGoodDeviatingBad ==
    Compared
        => /\ (us.pixels[3] = 0 /\ us.pixels[4] = 0 /\ us.pixels[5] = 0) => ~us.is_bad
           /\ 20 * us.pixels[4] > PixelSize(us.pixels) => us.is_bad

C16_Witness ==
    /\ Compared /\ ~us.is_bad
    /\ us.pixels[1] > 0 /\ us.pixels[2] > 0
    /\ us.pixels[3] = 0 /\ us.pixels[4] = 0 /\ us.pixels[5] = 0

\* two frames agree on the grouping schema of a calibration type: binning
\* for BIAS and DARK, binning and filter for SKYFLAT
SameConfiguration(calibration_type, f, g) ==
    /\ f.ccdsum = g.ccdsum
    /\ Upper(calibration_type) = "SKYFLAT" => f.filter = g.filter

\* a run of a maker of a type with a schema has returned, no combiner failing
Built ==
    /\ mr.pc = "done" /\ ~mr.combiner_raises
    /\ Upper(mr.calibration_type) \in {"BIAS", "DARK", "SKYFLAT"}

ShapesDiffer(images) ==
    \E i, j \in DOMAIN images : <<images[i].ny, images[i].nx>> # <<images[j].ny, images[j].nx>>

\* C18 (as claimed): the combiner fails with InsufficientInputError on an
\* empty list and with ShapeMismatchError on frames of differing shapes, and
\* returns no master in either case.
C18_RaisesInputErrors ==
    st.pc = "done"
        => /\ st.images = <<>>
                => st.raised = "InsufficientInputError" /\ st.master = <<>>
           /\ ShapesDiffer(st.images)
                => st.raised = "ShapeMismatchError" /\ st.master = <<>>

\* pixel p is flagged invalid in the mask of every frame of the stack
MaskedEverywhere(images, p) ==
    \A i \in DOMAIN images : p \in DOMAIN images[i].bpm /\ images[i].bpm[p] # 0

\* C19 (as claimed): combining frames of one shape gives a master whose mask
\* flags every pixel that all the frames' masks flag.
C19_AllMaskedPixelFlagged ==
    (st.pc = "done" /\ st.images # <<>> /\ ~ShapesDiffer(st.images))
        => /\ Len(st.master) = 1
           /\ \A p \in DOMAIN st.images[1].bpm :
                 MaskedEverywhere(st.images, p) => st.master[1].bpm[p] # 0

\* C20: a build whose pipeline stages raise is logged and ends its run: the
\* task finishes (the error does not fail it, so the queue has nothing to
\* redeliver) and is not re-armed, with or without retries left.
C20_FailedBuildNotRetried ==
    /\ \A id \in DOMAIN tasks : tasks[id].state \in {"queued", "done"}
    /\ \A id \in DOMAIN tasks :
          tasks[id].errors > 0
              => /\ tasks[id].state = "done"
                 /\ tasks[id].builds = 1 /\ tasks[id].errors = 1
                 /\ lastRun.id = id
                       => lastRun.outcome = "build" /\ tasks[id].retries = lastRun.retries

C20_Witness ==
    /\ Ran /\ LastTask.errors = 1 /\ LastTask.state = "done"
    /\ lastRun.outcome = "build" /\ lastRun.retries < MAX_RETRIES

\* C21: the countdown of a dispatch is never negative, and whenever
\* latest_block_end - now + stack_delay is not negative the countdown is
\* that whole number of seconds, a day or more included.
C21_CountdownIsWholeDuration ==
    \A i \in FirstDispatches :
        /\ tasks[i].countdown >= 0
        /\ DispatchDelay(tasks[i]) >= 0 => tasks[i].countdown = DispatchDelay(tasks[i])

\* the image of the task needs processing and the file's record can be
\* read and written: only the pipeline stages may raise
NeedsProcessing == im.pc # "idle" /\ im.needs /\ im.raises \in {"none", "stages"}

\* the stages of the task have been started
StagesStarted == im.tries_at_stages >= 0

\* C22: for an image that needs processing the try counter is incremented
\* before the stages run; the file is marked processed only after the
\* stages complete; if the stages raise the file is left as it was but for
\* the incremented counter, and the task returns without the exception.
\* An image that needs no processing keeps its counter and its flag.
C22_TriesThenStagesThenProcessed ==
    /\ ~im.propagated /\ im.pc # "failed"
    /\ NeedsProcessing =>
          /\ StagesStarted => im.tries_at_stages = im.tries0 + 1
          /\ im.processed # im.processed0 => im.stages_done
          /\ (im.pc = "done" /\ im.raises = "none") =>
                im.processed /\ im.stages_done /\ im.tries = im.tries0 + 1
          /\ (im.pc = "done" /\ im.raises = "stages") =>
                /\ StagesStarted /\ ~im.stages_done /\ im.logged
                /\ im.processed = im.processed0
                /\ im.tries = im.tries0 + 1
    /\ (im.pc # "idle" /\ ~im.needs /\ im.raises # "need") =>
          /\ im.tries = im.tries0 /\ im.processed = im.processed0
          /\ ~StagesStarted

C22_Witness ==
    /\ NeedsProcessing /\ im.pc = "done" /\ im.raises = "stages"
    /\ im.tries = im.tries0 + 1 /\ ~im.processed /\ im.logged

\* C23: do_stage of a calibration type without a configured minimum frame
\* count returns an empty list, whatever frames it is given, without
\* calling the combiner and without raising.
C23_NoMinimumNoMaster ==
    (mk.pc = "done" /\ Upper(mk.calibration_type) \notin {"BIAS", "DARK", "SKYFLAT"})
        => mk.result = <<>> /\ mk.combined = 0 /\ ~mk.raised

C23_Witness ==
    /\ mk.pc = "done" /\ mk.calibration_type = "ARC"
    /\ Len(mk.images) >= 5 /\ mk.combiner_raises
    /\ mk.result = <<>> /\ mk.combined = 0

====
